---- MODULE Spec2Model ----
(***************************************************************************)
(* keiba-dashboard: the betting ledger kept by scripts/add-bet.py, the     *)
(* roster enrichment of scripts/build.py and the well-formedness rules of  *)
(* scripts/validate-keiba-json.py.                                         *)
(*                                                                         *)
(* Text.  A Python str is a sequence of one-character strings, compared    *)
(* by code point as Python compares it.  Characters outside ASCII are      *)
(* written by a name:                                                      *)
(*   "waku" = 枠   "ban" = 番                                              *)
(*   bet types: "tansho" 単勝, "fukusho" 複勝, "umaren" 馬連,               *)
(*     "wide" ワイド, "wakuren" 枠連, "umatan" 馬単, "sanrenpuku" 3連複,    *)
(*     "sanrentan" 3連単, "tanpuku" 単複                                    *)
(*   results: "hit" 的中, "miss" 不的中                                      *)
(*   venues: "Sapporo" 札幌 ... "Kokura" 小倉 (one token each)              *)
(* Fields no claim reads (dayOfWeek, note, title, weapon, roi,             *)
(* weaponStats, weaponBreakdown) are left out of the records.              *)
(***************************************************************************)
EXTENDS Integers, Sequences, FiniteSets, TLC

VARIABLES
    file,     \* DATA_FILE / OUTPUT_FILE (data_2026.json) as it is on disk
    source,   \* SOURCE_FILE (data_2026_source.json) read by build.py
    pc,       \* where the running add-bet invocation is
    data,     \* the document add-bet holds in memory
    probe     \* one call of the validator's validate_selection

vars == <<file, source, pc, data, probe>>

(***************************** bounds **************************************)
MaxBets == 3        \* wagers in the ledger
MaxLen == 5         \* length of a selection string handed to the validator
MaxRosterBets == 1  \* wagers appended on top of a built document

(***************************** text ****************************************)
Digits == {"0", "1", "2", "3", "4", "5", "6", "7", "8", "9"}

DigitVal(c) ==
    CASE c = "0" -> 0 [] c = "1" -> 1 [] c = "2" -> 2 [] c = "3" -> 3
      [] c = "4" -> 4 [] c = "5" -> 5 [] c = "6" -> 6 [] c = "7" -> 7
      [] c = "8" -> 8 [] c = "9" -> 9

\* ord(c) of the characters a date or a month key can hold
Ord(c) ==
    CASE c = " " -> 32 [] c = "-" -> 45 [] c \in Digits -> 48 + DigitVal(c)
      [] OTHER -> 95

MinOf(S) == CHOOSE x \in S : \A y \in S : x <= y

\* a < b for two str values
StrLess(a, b) ==
    LET n == IF Len(a) < Len(b) THEN Len(a) ELSE Len(b)
        diff == {i \in 1..n : a[i] # b[i]}
    IN  IF diff = {} THEN Len(a) < Len(b)
        ELSE Ord(a[MinOf(diff)]) < Ord(b[MinOf(diff)])

\* s.startswith(p)
StartsWith(s, p) == Len(p) <= Len(s) /\ SubSeq(s, 1, Len(p)) = p

\* s[:n]
Slice(s, n) == SubSeq(s, 1, IF Len(s) < n THEN Len(s) ELSE n)

RECURSIVE Split(_, _)
\* s.split(sep), sep one character
Split(s, sep) ==
    LET hits == {i \in 1..Len(s) : s[i] = sep}
    IN  IF hits = {} THEN <<s>>
        ELSE <<SubSeq(s, 1, MinOf(hits) - 1)>>
                 \o Split(SubSeq(s, MinOf(hits) + 1, Len(s)), sep)

RECURSIVE strip(_)
\* s.strip() for blanks
strip(s) ==
    IF s = << >> THEN s
    ELSE IF Head(s) = " " THEN strip(Tail(s))
    ELSE IF s[Len(s)] = " " THEN strip(SubSeq(s, 1, Len(s) - 1))
    ELSE s

\* s.zfill(2)
zfill(s) ==
    IF Len(s) >= 2 THEN s ELSE IF Len(s) = 1 THEN <<"0">> \o s ELSE <<"0", "0">>

\* s.replace("-", "")
RemoveHyphens(s) == SelectSeq(s, LAMBDA c : c # "-")

AllDigits(s) == \A i \in 1..Len(s) : s[i] \in Digits

RECURSIVE NumVal(_)
\* int(s) of a string of digits (blanks skipped)
NumVal(s) ==
    IF s = << >> THEN 0
    ELSE IF s[Len(s)] \in Digits
         THEN 10 * NumVal(SubSeq(s, 1, Len(s) - 1)) + DigitVal(s[Len(s)])
         ELSE NumVal(SubSeq(s, 1, Len(s) - 1))

DigitChar(n) == CHOOSE c \in Digits : DigitVal(c) = n

\* f"{n}" of an integer 0..99
IntStr(n) == IF n < 10 THEN <<DigitChar(n)>> ELSE <<DigitChar(n \div 10), DigitChar(n % 10)>>

(***************************** add-bet.py: tables **************************)
JYO_CODE ==
    [v \in {"Sapporo", "Hakodate", "Fukushima", "Niigata", "Tokyo",
            "Nakayama", "Chukyo", "Kyoto", "Hanshin", "Kokura"} |->
        CASE v = "Sapporo" -> <<"0", "1">> [] v = "Hakodate" -> <<"0", "2">>
          [] v = "Fukushima" -> <<"0", "3">> [] v = "Niigata" -> <<"0", "4">>
          [] v = "Tokyo" -> <<"0", "5">> [] v = "Nakayama" -> <<"0", "6">>
          [] v = "Chukyo" -> <<"0", "7">> [] v = "Kyoto" -> <<"0", "8">>
          [] v = "Hanshin" -> <<"0", "9">> [] v = "Kokura" -> <<"1", "0">>]

VALID_TYPES ==
    {"tansho", "fukusho", "umaren", "wide", "wakuren", "umatan",
     "sanrenpuku", "sanrentan"}

(***************************** add-bet.py: validation **********************)
IsLeap(y) == y % 4 = 0 /\ (y % 100 # 0 \/ y % 400 = 0)

DaysInMonth(y, m) ==
    IF m = 2 THEN (IF IsLeap(y) THEN 29 ELSE 28)
    ELSE IF m \in {4, 6, 9, 11} THEN 30 ELSE 31

\* %m of strptime: 1[0-2]|0[1-9]|[1-9]
MonthForm(p) ==
    \/ Len(p) = 2 /\ p[1] = "1" /\ p[2] \in {"0", "1", "2"}
    \/ Len(p) = 2 /\ p[1] = "0" /\ p[2] \in Digits \ {"0"}
    \/ Len(p) = 1 /\ p[1] \in Digits \ {"0"}

\* %d of strptime: 3[0-1]|[1-2]\d|0[1-9]|[1-9]| [1-9]
DayForm(p) ==
    \/ Len(p) = 2 /\ p[1] = "3" /\ p[2] \in {"0", "1"}
    \/ Len(p) = 2 /\ p[1] \in {"1", "2"} /\ p[2] \in Digits
    \/ Len(p) = 2 /\ p[1] = "0" /\ p[2] \in Digits \ {"0"}
    \/ Len(p) = 1 /\ p[1] \in Digits \ {"0"}
    \/ Len(p) = 2 /\ p[1] = " " /\ p[2] \in Digits \ {"0"}

\* datetime.strptime(date_str, "%Y-%m-%d") raises no ValueError
validate_date(date_str) ==
    LET parts == Split(date_str, "-")
    IN  /\ Len(parts) = 3
        /\ Len(parts[1]) = 4 /\ AllDigits(parts[1]) /\ NumVal(parts[1]) >= 1
        /\ MonthForm(parts[2])
        /\ DayForm(parts[3])
        /\ NumVal(parts[3]) <= DaysInMonth(NumVal(parts[1]), NumVal(parts[2]))

\* ^\d{1,2}(-\d{1,2}){0,2}$
NumberPattern(s) ==
    LET parts == Split(s, "-")
    IN  /\ Len(parts) <= 3
        /\ \A i \in 1..Len(parts) :
              Len(parts[i]) \in {1, 2} /\ AllDigits(parts[i])

\* ^\d(-\d)?$
FramePattern(s) ==
    LET parts == Split(s, "-")
    IN  /\ Len(parts) <= 2
        /\ \A i \in 1..Len(parts) : Len(parts[i]) = 1 /\ AllDigits(parts[i])

validate_selection(selection, bet_type) ==
    IF bet_type = "wakuren" THEN FramePattern(selection)
    ELSE NumberPattern(selection)

(***************************** the document ********************************)
EmptyDoc ==
    [lastUpdated |-> << >>,
     summary |-> [totalInvest |-> 0, totalPayout |-> 0, totalProfit |-> 0],
     monthly |-> << >>,
     daily |-> << >>,
     races |-> << >>]

\* the top-level keys json.dump writes, in order
Sections == <<"lastUpdated", "summary", "monthly", "daily", "races">>

NoFile == [exists |-> FALSE, written |-> 0, doc |-> EmptyDoc]

WholeFile(doc) == [exists |-> TRUE, written |-> Len(Sections), doc |-> doc]

\* json.load succeeds only on a file that holds a whole document
Loadable(f) == ~f.exists \/ f.written = Len(Sections)

load_data(f) == IF f.exists THEN f.doc ELSE EmptyDoc

RECURSIVE SumAmount(_)
SumAmount(bets) ==
    IF bets = << >> THEN 0 ELSE Head(bets).amount + SumAmount(Tail(bets))

RECURSIVE SumPayout(_)
SumPayout(bets) ==
    IF bets = << >> THEN 0 ELSE Head(bets).payout + SumPayout(Tail(bets))

RECURSIVE InvestOf(_, _)
\* amount summed over the wagers of the races keyed in keys
InvestOf(races, keys) ==
    IF keys = {} THEN 0
    ELSE LET k == CHOOSE x \in keys : TRUE
         IN  SumAmount(races[k].bets) + InvestOf(races, keys \ {k})

RECURSIVE PayoutOf(_, _)
PayoutOf(races, keys) ==
    IF keys = {} THEN 0
    ELSE LET k == CHOOSE x \in keys : TRUE
         IN  SumPayout(races[k].bets) + PayoutOf(races, keys \ {k})

\* invest (payout) summed over a sequence of rollups
RECURSIVE SeqInvest(_)
SeqInvest(rollups) ==
    IF rollups = << >> THEN 0
    ELSE Head(rollups).invest + SeqInvest(Tail(rollups))

RECURSIVE SeqPayout(_)
SeqPayout(rollups) ==
    IF rollups = << >> THEN 0
    ELSE Head(rollups).payout + SeqPayout(Tail(rollups))

(***************************** add-bet.py: rollups *************************)
\* a summary taken from the daily rollups instead of the races
update_summary_from_daily(doc) ==
    [doc EXCEPT !.summary =
        [totalInvest |-> SeqInvest(doc.daily),
         totalPayout |-> SeqPayout(doc.daily),
         totalProfit |-> SeqPayout(doc.daily) - SeqInvest(doc.daily)]]

update_summary(doc) ==
    LET total_invest == InvestOf(doc.races, DOMAIN doc.races)
        total_payout == PayoutOf(doc.races, DOMAIN doc.races)
    IN  [doc EXCEPT !.summary =
            [totalInvest |-> total_invest,
             totalPayout |-> total_payout,
             totalProfit |-> total_payout - total_invest]]

RECURSIVE InsertByDate(_, _)
\* e put into the date-sorted s behind every entry that is not greater
InsertByDate(s, e) ==
    IF s = << >> THEN <<e>>
    ELSE IF StrLess(e.date, Head(s).date) THEN <<e>> \o s
    ELSE <<Head(s)>> \o InsertByDate(Tail(s), e)

\* the sort left out
SortByDate_unsorted(s) == s

RECURSIVE SortByDate(_)
\* list.sort(key=lambda x: x["date"]): stable, by the date string
SortByDate(s) ==
    IF s = << >> THEN s
    ELSE InsertByDate(SortByDate(SubSeq(s, 1, Len(s) - 1)), s[Len(s)])

RECURSIVE RecomputeCumulative(_, _, _)
\* the loop of lines 163-166 from entry i on, cumulative the running total
RecomputeCumulative(daily, i, cumulative) ==
    IF i > Len(daily) THEN daily
    ELSE RecomputeCumulative(
             [daily EXCEPT ![i].cumulative = cumulative + daily[i].profit],
             i + 1, cumulative + daily[i].profit)

\* the existing entry never found: a rollup appended on every call
update_daily_append_always(doc, date) ==
    LET keys == {k \in DOMAIN doc.races : StartsWith(k, date)}
        invest == InvestOf(doc.races, keys)
        payout == PayoutOf(doc.races, keys)
        placed ==
            SortByDate(Append(doc.daily,
                [date |-> date, invest |-> invest, payout |-> payout,
                 profit |-> payout - invest, cumulative |-> 0]))
    IN  [doc EXCEPT !.daily = RecomputeCumulative(placed, 1, 0)]

update_daily(doc, date) ==
    LET keys == {k \in DOMAIN doc.races : StartsWith(k, date)}
        invest == InvestOf(doc.races, keys)
        payout == PayoutOf(doc.races, keys)
        profit == payout - invest
        found == {i \in 1..Len(doc.daily) : doc.daily[i].date = date}
        placed ==
            IF found # {}
            THEN [doc.daily EXCEPT ![MinOf(found)] =
                     [@ EXCEPT !.invest = invest, !.payout = payout,
                               !.profit = profit]]
            ELSE SortByDate(Append(doc.daily,
                     [date |-> date, invest |-> invest, payout |-> payout,
                      profit |-> profit, cumulative |-> 0]))
    IN  [doc EXCEPT !.daily = RecomputeCumulative(placed, 1, 0)]

RECURSIVE MonthInvest_last(_, _)
\* = written for +=: the last day of the month alone
MonthInvest_last(daily, month) ==
    IF daily = << >> THEN 0
    ELSE IF Slice(daily[Len(daily)].date, 7) = month
         THEN daily[Len(daily)].invest
         ELSE MonthInvest_last(SubSeq(daily, 1, Len(daily) - 1), month)

RECURSIVE MonthInvest(_, _)
\* invest summed over the daily entries whose date[:7] is month
MonthInvest(daily, month) ==
    IF daily = << >> THEN 0
    ELSE (IF Slice(Head(daily).date, 7) = month THEN Head(daily).invest ELSE 0)
             + MonthInvest(Tail(daily), month)

RECURSIVE MonthPayout(_, _)
MonthPayout(daily, month) ==
    IF daily = << >> THEN 0
    ELSE (IF Slice(Head(daily).date, 7) = month THEN Head(daily).payout ELSE 0)
             + MonthPayout(Tail(daily), month)

RECURSIVE SortedStrings(_)
\* sorted(...) of a set of str
SortedStrings(S) ==
    IF S = {} THEN << >>
    ELSE LET m == CHOOSE x \in S : \A y \in S \ {x} : StrLess(x, y)
         IN  <<m>> \o SortedStrings(S \ {m})

update_monthly(doc) ==
    LET months == {Slice(doc.daily[i].date, 7) : i \in 1..Len(doc.daily)}
        order == SortedStrings(months)
    IN  [doc EXCEPT !.monthly =
            [j \in 1..Len(order) |->
                [month |-> order[j],
                 invest |-> MonthInvest(doc.daily, order[j]),
                 payout |-> MonthPayout(doc.daily, order[j]),
                 profit |-> MonthPayout(doc.daily, order[j])
                                - MonthInvest(doc.daily, order[j])]]]

(***************************** add-bet.py: main ****************************)
RECURSIVE DictOfRows(_)
\* {row[0].zfill(2): row[1] for row in rows}: a later row replaces an earlier
DictOfRows(rows) ==
    IF rows = << >> THEN << >>
    ELSE LET last == rows[Len(rows)]
             rest == DictOfRows(SubSeq(rows, 1, Len(rows) - 1))
         IN  (zfill(last[1]) :> last[2]) @@ rest

\* get_horse_names of add-bet.py; rows is what the query returns, << >> when
\* the database is absent or the query fails
get_horse_names(rows) == DictOfRows(rows)

\* horses.get(padded, horses.get(num, ""))
NameOf(horses, num) ==
    IF zfill(num) \in DOMAIN horses THEN horses[zfill(num)]
    ELSE IF num \in DOMAIN horses THEN horses[num]
    ELSE ""

RECURSIVE AddHorses(_, _, _)
\* the loop of lines 330-335 over sel_nums
AddHorses(roster, sel_nums, horses) ==
    IF sel_nums = << >> THEN roster
    ELSE LET padded == zfill(Head(sel_nums))
             name == NameOf(horses, Head(sel_nums))
         IN  AddHorses(
                 IF padded \notin DOMAIN roster /\ name # ""
                 THEN (padded :> name) @@ roster ELSE roster,
                 Tail(sel_nums), horses)

\* the result as the operator typed it
StoredResult_typed(result, payout) == IF result = "hit" THEN "hit" ELSE "-"

\* the result main stores with the wager
StoredResult(result, payout) == IF payout > 0 THEN "hit" ELSE "-"

RaceName(venue, race_num) == <<venue>> \o IntStr(race_num) \o <<"R">>

RaceKey(date, venue, race_num) == date \o <<"_">> \o RaceName(venue, race_num)

\* the answers the prompts of lines 198-293 hand on
Answers(date, venue, race_num, bet_type, selection, amount, result, payout) ==
    [date |-> date, venue |-> venue, race_num |-> race_num,
     bet_type |-> bet_type, selection |-> selection, amount |-> amount,
     result |-> result, payout |-> payout]

\* lines 284-293: the payout is asked for after a hit alone
PayoutOfAnswers(a) == IF a.result = "hit" THEN a.payout ELSE 0

\* lines 313-351: the loaded document with the wager appended and the three
\* views recomputed
AppendWager(doc, a, horses) ==
    LET race_key == RaceKey(a.date, a.venue, a.race_num)
        race0 ==
            IF race_key \in DOMAIN doc.races THEN doc.races[race_key]
            ELSE [date |-> a.date, name |-> RaceName(a.venue, a.race_num),
                  horses |-> << >>, bets |-> << >>]
        race1 ==
            [race0 EXCEPT
                !.horses = AddHorses(@, Split(a.selection, "-"), horses),
                !.bets = Append(@,
                    [type |-> a.bet_type, selection |-> a.selection,
                     amount |-> a.amount, payout |-> PayoutOfAnswers(a),
                     result |-> StoredResult(a.result, PayoutOfAnswers(a))])]
        doc1 == [doc EXCEPT !.races = (race_key :> race1) @@ doc.races,
                            !.lastUpdated = a.date]
    IN  update_summary(update_monthly(update_daily(doc1, a.date)))

\* what the prompts of lines 198-293 let through
Accepted(a) ==
    /\ a.venue \in DOMAIN JYO_CODE
    /\ a.race_num >= 1 /\ a.race_num <= 12
    /\ a.bet_type \in VALID_TYPES
    /\ a.amount > 0
    /\ a.result \in {"hit", "miss"}
    /\ a.result = "hit" => a.payout >= 0
    /\ validate_selection(a.selection, a.bet_type)
    /\ validate_date(a.date)

RECURSIVE CountBets(_, _)
CountBets(races, keys) ==
    IF keys = {} THEN 0
    ELSE LET k == CHOOSE x \in keys : TRUE
         IN  Len(races[k].bets) + CountBets(races, keys \ {k})

\* one whole run of main, answered y at the confirmation
Main(a, rows) ==
    /\ pc = "idle"
    /\ Loadable(file)
    /\ Accepted(a)
    /\ file' = WholeFile(AppendWager(load_data(file), a, get_horse_names(rows)))
    /\ UNCHANGED <<source, pc, data, probe>>

(***************************** validate-keiba-json.py **********************)
v_VALID_TYPES ==
    {"tansho", "fukusho", "umaren", "umatan", "wide", "wakuren",
     "sanrenpuku", "sanrentan", "tanpuku"}

\* ^(\d{1,2}(-\d{1,2}){0,2}|枠\d{1,2}-\d{1,2})$
v_SELECTION_PATTERN(s) ==
    \/ NumberPattern(s)
    \/ /\ s # << >> /\ Head(s) = "waku"
       /\ Len(Split(Tail(s), "-")) = 2
       /\ NumberPattern(Tail(s))

v_validate_type(bet_type) == bet_type \in v_VALID_TYPES

v_validate_selection(selection, bet_type) ==
    IF selection \in {<< >>, <<"-">>, <<"0">>} THEN FALSE
    ELSE IF \E i \in 1..Len(selection) : selection[i] \in {",", "ban"}
    THEN FALSE
    ELSE IF bet_type = "wakuren"
    THEN (selection # << >> /\ Head(selection) = "waku")
             \/ v_SELECTION_PATTERN(selection)
    ELSE v_SELECTION_PATTERN(selection)

\* the errors validate_json collects, as (race key, position, field)
v_validate_json(doc) ==
    LET bets == UNION {{<<k, i>> : i \in 1..Len(doc.races[k].bets)} :
                          k \in DOMAIN doc.races}
    IN  {<<w[1], w[2], "type">> : w \in
            {x \in bets : ~v_validate_type(doc.races[x[1]].bets[x[2]].type)}}
        \cup
        {<<w[1], w[2], "selection">> : w \in
            {x \in bets :
                ~v_validate_selection(doc.races[x[1]].bets[x[2]].selection,
                                      doc.races[x[1]].bets[x[2]].type)}}

(***************************** the ledger **********************************)
\* what the operator types; the prompts turn the ill-formed ones away
DateInputs ==
    { <<"2","0","2","6","-","0","1","-","0","5">>,
      <<"2","0","2","6","-","0","2","-","0","1">>,
      <<"2","0","2","6","-","1","-","1">>,
      <<"2","0","2","6","-","1","-","1","2">>,
      <<" ","2","0","2","6","-","0","1","-","0","5"," ">>,
      <<"2","0","2","6","-","1","3","-","0","1">>,
      <<"2","0","2","6","-","0","2","-","3","0">>,
      <<"2","0","2","6","0","1","0","5">> }

VenueInputs == {"Tokyo", "Urawa"}

RaceNumInputs == {0, 1, 11}

AmountInputs == {0, 100}

ResultInputs == {"hit", "miss", "x"}

PayoutInputs == {-50, 0, 250}

\* input(...).strip() of each prompt, for every line typed
Typed(lines) == {strip(l) : l \in lines}

Init ==
    /\ file = NoFile
    /\ source = EmptyDoc
    /\ pc = "idle"
    /\ data = EmptyDoc
    /\ probe = [selection |-> << >>, bet_type |-> "tansho", called |-> FALSE,
                valid |-> FALSE]

\* the ledger holds fewer wagers than the bound
Room == CountBets(file.doc.races, DOMAIN file.doc.races) < MaxBets

Next ==
    /\ Room
    /\ \E date \in Typed(DateInputs), venue \in VenueInputs,
          race_num \in RaceNumInputs, amount \in AmountInputs,
          result \in ResultInputs, payout_in \in PayoutInputs :
        Main(Answers(date, venue, race_num, "tansho", <<"5">>, amount,
                     result, payout_in), << >>)

Spec == Init /\ [][Next]_vars

(***************************** claims: the ledger **************************)
Ledger == file.doc

\* every wager of the ledger, by race key and position
Wagers(races) ==
    UNION {{<<k, i>> : i \in 1..Len(races[k].bets)} : k \in DOMAIN races}

WagersOn(races, date) == {w \in Wagers(races) : races[w[1]].date = date}

RECURSIVE TotalAmount(_, _)
TotalAmount(races, W) ==
    IF W = {} THEN 0
    ELSE LET w == CHOOSE x \in W : TRUE
         IN  races[w[1]].bets[w[2]].amount + TotalAmount(races, W \ {w})

RECURSIVE TotalPayout(_, _)
TotalPayout(races, W) ==
    IF W = {} THEN 0
    ELSE LET w == CHOOSE x \in W : TRUE
         IN  races[w[1]].bets[w[2]].payout + TotalPayout(races, W \ {w})

RECURSIVE ProfitUpTo(_, _)
ProfitUpTo(daily, i) ==
    IF i = 0 THEN 0 ELSE daily[i].profit + ProfitUpTo(daily, i - 1)

RaceDates(races) == {races[k].date : k \in DOMAIN races}

\* YYYY-MM-DD with every digit written
ZeroPadded(d) ==
    /\ Len(d) = 10
    /\ d[5] = "-" /\ d[8] = "-"
    /\ \A i \in {1, 2, 3, 4, 6, 7, 9, 10} : d[i] \in Digits

C2_OneRollupPerDate ==
    (\A d \in RaceDates(Ledger.races) : ZeroPadded(d)) =>
        /\ \A d \in RaceDates(Ledger.races) :
              \E i \in 1..Len(Ledger.daily) :
                  /\ Ledger.daily[i].date = d
                  /\ \A j \in 1..Len(Ledger.daily) :
                        Ledger.daily[j].date = d => j = i
                  /\ Ledger.daily[i].invest
                        = TotalAmount(Ledger.races, WagersOn(Ledger.races, d))
                  /\ Ledger.daily[i].payout
                        = TotalPayout(Ledger.races, WagersOn(Ledger.races, d))
        /\ \A i \in 1..Len(Ledger.daily) :
              /\ Ledger.daily[i].date \in RaceDates(Ledger.races)
              /\ Ledger.daily[i].profit
                    = Ledger.daily[i].payout - Ledger.daily[i].invest

\* two zero-padded dates, one of them with two races and a winning wager
C2_Witness ==
    /\ \A d \in RaceDates(Ledger.races) : ZeroPadded(d)
    /\ Cardinality(RaceDates(Ledger.races)) = 2
    /\ Cardinality(DOMAIN Ledger.races) = 3
    /\ \E i \in 1..Len(Ledger.daily) : Ledger.daily[i].payout > 0

RECURSIVE DailyInvestIn(_, _)
\* invest summed over the rollups whose date starts with month
DailyInvestIn(daily, month) ==
    IF daily = << >> THEN 0
    ELSE LET rest == DailyInvestIn(SubSeq(daily, 1, Len(daily) - 1), month)
             last == daily[Len(daily)]
         IN  IF StartsWith(last.date, month) THEN rest + last.invest ELSE rest

RECURSIVE DailyPayoutIn(_, _)
DailyPayoutIn(daily, month) ==
    IF daily = << >> THEN 0
    ELSE LET rest == DailyPayoutIn(SubSeq(daily, 1, Len(daily) - 1), month)
             last == daily[Len(daily)]
         IN  IF StartsWith(last.date, month) THEN rest + last.payout ELSE rest

MonthKeys(daily) == {SubSeq(daily[i].date, 1, 7) : i \in 1..Len(daily)}

C4_SummaryFromRaces ==
    /\ Ledger.summary.totalInvest
          = TotalAmount(Ledger.races, Wagers(Ledger.races))
    /\ Ledger.summary.totalPayout
          = TotalPayout(Ledger.races, Wagers(Ledger.races))
    /\ Ledger.summary.totalProfit
          = Ledger.summary.totalPayout - Ledger.summary.totalInvest

\* three wagers in two races, some paid and some not
C4_Witness ==
    /\ Cardinality(Wagers(Ledger.races)) = 3
    /\ Cardinality(DOMAIN Ledger.races) = 2
    /\ Ledger.summary.totalPayout > 0
    /\ Ledger.summary.totalProfit < 0

\* C8: every stored wager has result "hit" exactly when its payout is
\* positive.
C8_HitIffPaid ==
    \A w \in Wagers(Ledger.races) :
        Ledger.races[w[1]].bets[w[2]].result = "hit"
            <=> Ledger.races[w[1]].bets[w[2]].payout > 0

\* a paid wager stored "hit" next to an unpaid one stored "-"
C8_Witness ==
    /\ \E w \in Wagers(Ledger.races) :
          /\ Ledger.races[w[1]].bets[w[2]].payout > 0
          /\ Ledger.races[w[1]].bets[w[2]].result = "hit"
    /\ \E w \in Wagers(Ledger.races) :
          /\ Ledger.races[w[1]].bets[w[2]].payout = 0
          /\ Ledger.races[w[1]].bets[w[2]].result = "-"

\* C10: after every append the invest (and the payout) summed over daily,
\* summed over monthly and held by the summary are equal, and the last
\* daily cumulative is the summary's totalProfit.
C10_ViewsAgree ==
    /\ SeqInvest(Ledger.daily) = SeqInvest(Ledger.monthly)
    /\ SeqInvest(Ledger.monthly) = Ledger.summary.totalInvest
    /\ SeqPayout(Ledger.daily) = SeqPayout(Ledger.monthly)
    /\ SeqPayout(Ledger.monthly) = Ledger.summary.totalPayout
    /\ Ledger.daily # << >> =>
          Ledger.daily[Len(Ledger.daily)].cumulative = Ledger.summary.totalProfit

\* C11: every daily rollup counts the wagers of the races of its own date
\* and no others: a wager appended under one date adds nothing to the invest
\* or the payout of the rollup of another date, padded or not.
C11_OnlyOwnDate ==
    \A i \in 1..Len(Ledger.daily) :
        /\ Ledger.daily[i].invest
              = TotalAmount(Ledger.races,
                            WagersOn(Ledger.races, Ledger.daily[i].date))
        /\ Ledger.daily[i].payout
              = TotalPayout(Ledger.races,
                            WagersOn(Ledger.races, Ledger.daily[i].date))

(***************************** the prompts for type and selection **********)
TypeInputs == {"tansho", "wakuren", "sanrenpuku", "tanpuku", "umaren5-6"}

SelectionInputs ==
    { << >>, <<"-">>, <<"0">>, <<"5">>, <<" ", "0", "5", " ">>,
      <<"5", "-", "5">>, <<"0", "5", "-", "1", "1">>,
      <<"3", "-", "6", "-", "1", "5">>, <<"1", "-", "2", "-", "3", "-", "4">>,
      <<"5", ",", "6">>, <<"5", "ban">>, <<"waku", "5", "-", "5">>,
      <<"1", "2", "3">> }

\* one date, one race: wagers of every type and selection the prompts accept
DateOfInput == <<"2", "0", "2", "6", "-", "0", "2", "-", "0", "1">>

NextInput ==
    /\ Room
    /\ \E bet_type \in TypeInputs, selection \in Typed(SelectionInputs) :
           Main(Answers(DateOfInput, "Tokyo", 5, bet_type, selection, 100,
                        "miss", 0), << >>)

SpecInput == Init /\ [][NextInput]_vars

\* C5: a ledger built by appends alone passes validate_json: every stored
\* type and selection is one the validation rules accept.
C5_AppendsValidate == v_validate_json(Ledger) = {}

(***************************** the validator's validate_selection **********)
Alphabet == {"0", "5", "-", "waku", ",", "ban"}

ProbeTypes == {"tansho", "wakuren"}

Strings(n) == UNION {[1..m -> Alphabet] : m \in 0..n}

InitValidator ==
    /\ file = NoFile
    /\ source = EmptyDoc
    /\ pc = "idle"
    /\ data = EmptyDoc
    /\ probe \in [selection : Strings(MaxLen), bet_type : ProbeTypes,
                  called : {FALSE}, valid : {FALSE}]

Validate ==
    /\ ~probe.called
    /\ probe' = [probe EXCEPT
                    !.called = TRUE,
                    !.valid = v_validate_selection(probe.selection,
                                                   probe.bet_type)]
    /\ UNCHANGED <<file, source, pc, data>>

NextValidator == Validate

SpecValidator == InitValidator /\ [][NextValidator]_vars

\* a number of one or two digits
IsNumber(s) == Len(s) \in {1, 2} /\ AllDigits(s)

\* what the rules allow: a number, two or three numbers joined by hyphens,
\* or for wakuren alone waku N-N; "0" is the one number the rules name invalid
Allowed(s, bet_type) ==
    LET parts == Split(s, "-")
    IN  \/ IsNumber(s) /\ s # <<"0">>
        \/ Len(parts) \in {2, 3} /\ \A i \in 1..Len(parts) : IsNumber(parts[i])
        \/ /\ bet_type = "wakuren"
           /\ s # << >> /\ Head(s) = "waku"
           /\ Len(Split(Tail(s), "-")) = 2
           /\ \A i \in 1..2 : IsNumber(Split(Tail(s), "-")[i])

\* C9: validate_selection accepts a selection exactly when the rules allow
\* it: a waku-prefixed selection is rejected for every type but wakuren, and
\* for wakuren unless it is waku N-N.
C9_AcceptsExactlyAllowed ==
    probe.called => (probe.valid <=> Allowed(probe.selection, probe.bet_type))

(***************************** add-bet.py: main, step by step **************)
\* pc: "idle" no invocation; "prompt" at the prompts of lines 198-308;
\* "save" the document updated in memory, save_data not yet called;
\* "writing" inside save_data, DATA_FILE open for writing

Start ==
    /\ pc = "idle"
    /\ pc' = "prompt"
    /\ UNCHANGED <<file, source, data, probe>>

\* anything but y at the confirmation: main returns
Cancel ==
    /\ pc = "prompt"
    /\ pc' = "idle"
    /\ UNCHANGED <<file, source, data, probe>>

\* y at the confirmation: lines 313-351
Confirm(a, rows) ==
    /\ pc = "prompt"
    /\ Loadable(file)
    /\ Accepted(a)
    /\ data' = AppendWager(load_data(file), a, get_horse_names(rows))
    /\ pc' = "save"
    /\ UNCHANGED <<file, source, probe>>

\* json.load raises on a file that holds no whole document: the run dies
LoadFails ==
    /\ pc = "prompt"
    /\ ~Loadable(file)
    /\ pc' = "idle"
    /\ UNCHANGED <<file, source, data, probe>>

\* open(DATA_FILE, "w"): the file is cut to nothing
SaveOpen ==
    /\ pc = "save"
    /\ file' = [exists |-> TRUE, written |-> 0, doc |-> data]
    /\ pc' = "writing"
    /\ UNCHANGED <<source, data, probe>>

\* json.dump: the text reaches the file piece by piece
SaveWrite ==
    /\ pc = "writing"
    /\ file.written < Len(Sections)
    /\ file' = [file EXCEPT !.written = @ + 1]
    /\ UNCHANGED <<source, pc, data, probe>>

\* the with block ends, main prints and returns
SaveClose ==
    /\ pc = "writing"
    /\ file.written = Len(Sections)
    /\ pc' = "idle"
    /\ data' = EmptyDoc
    /\ UNCHANGED <<file, source, probe>>

\* KeyboardInterrupt, lines 360-365: whatever is on disk stays
Interrupt ==
    /\ pc # "idle"
    /\ pc' = "idle"
    /\ data' = EmptyDoc
    /\ UNCHANGED <<file, source, probe>>

SaveDates ==
    { <<"2", "0", "2", "6", "-", "0", "1", "-", "0", "5">>,
      <<"2", "0", "2", "6", "-", "0", "2", "-", "0", "1">> }

NextSave ==
    \/ Start
    \/ Cancel
    \/ /\ Room
       /\ \E date \in SaveDates, result \in {"hit", "miss"} :
              Confirm(Answers(date, "Tokyo", 5, "tansho", <<"5">>, 100,
                              result, 250), << >>)
    \/ LoadFails
    \/ SaveOpen
    \/ SaveWrite
    \/ SaveClose
    \/ Interrupt

SpecSave == Init /\ [][NextSave]_vars

\* C7: at every moment DATA_FILE, if there, holds a whole document.
C7_NoPartialFile == file.exists => file.written = Len(Sections)

(***************************** build.py ************************************)
None == <<"None">>

\* the digits of key from position i on, as far as they run
DigitRunEnd(key, i) ==
    LET stops == {j \in i..Len(key) : key[j] \notin Digits}
    IN  IF stops = {} THEN Len(key) ELSE MinOf(stops) - 1

\* re.match(r'(\d{4}-\d{2}-\d{2})_(.+?)(\d+)R', race_key): the date, the
\* venue code and the zero-padded race number, or None
parse_race_key(race_key) ==
    LET dateOk ==
            /\ Len(race_key) >= 11
            /\ \A i \in {1, 2, 3, 4, 6, 7, 9, 10} : race_key[i] \in Digits
            /\ race_key[5] = "-" /\ race_key[8] = "-"
            /\ race_key[11] = "_"
        \* the ends i of the venue that digits and an R follow
        ends == {i \in 12..Len(race_key) :
                    /\ DigitRunEnd(race_key, i + 1) >= i + 1
                    /\ DigitRunEnd(race_key, i + 1) < Len(race_key)
                    /\ race_key[DigitRunEnd(race_key, i + 1) + 1] = "R"}
    IN  IF ~dateOk \/ ends = {} THEN None
        ELSE LET i == MinOf(ends)
                 place_name == SubSeq(race_key, 12, i)
                 race_num == SubSeq(race_key, i + 1,
                                    DigitRunEnd(race_key, i + 1))
             IN  IF Len(place_name) = 1 /\ place_name[1] \in DOMAIN JYO_CODE
                 THEN <<RemoveHyphens(SubSeq(race_key, 1, 10)),
                        JYO_CODE[place_name[1]], zfill(race_num)>>
                 ELSE None

\* re.sub(r'\D', '', num)
OnlyDigits(s) == SelectSeq(s, LAMBDA c : c \in Digits)

extract_horse_numbers(bets) ==
    UNION {{zfill(OnlyDigits(Split(bets[b].selection, "-")[i])) :
               i \in {j \in 1..Len(Split(bets[b].selection, "-")) :
                         OnlyDigits(Split(bets[b].selection, "-")[j]) # << >>}} :
           b \in {c \in 1..Len(bets) : bets[c].selection # << >>}}

RECURSIVE HorsesOfRows(_, _)
\* get_horse_names of build.py: the rows whose umaban is asked for, keyed by
\* the zero-padded umaban, a later row replacing an earlier
HorsesOfRows(rows, horse_nums) ==
    IF rows = << >> THEN << >>
    ELSE LET last == rows[Len(rows)]
             rest == HorsesOfRows(SubSeq(rows, 1, Len(rows) - 1), horse_nums)
         IN  IF last[1] \in horse_nums THEN (zfill(last[1]) :> last[2]) @@ rest
             ELSE rest

build_get_horse_names(db, query, horse_nums) ==
    IF horse_nums = {} THEN << >> ELSE HorsesOfRows(db[query], horse_nums)

\* a roster test that lets every race through
HasRoster_never(race) == FALSE

\* race_data.get('horses') and len(race_data['horses']) > 0: the race has
\* its roster already and build leaves it alone
HasRoster(race) == race.horses # << >>

\* one turn of the loop of lines 144-168
EnrichRace(race_key, race, conn, db) ==
    IF HasRoster(race) THEN race
    ELSE IF parse_race_key(race_key) = None THEN race
    ELSE IF extract_horse_numbers(race.bets) = {} THEN race
    ELSE IF ~conn THEN race
    ELSE LET horses == build_get_horse_names(db, parse_race_key(race_key),
                           extract_horse_numbers(race.bets))
         IN  IF horses # << >> THEN [race EXCEPT !.horses = horses] ELSE race

\* build(): SOURCE_FILE read, every race enriched, OUTPUT_FILE written
Build(conn, db) ==
    /\ pc = "idle"
    /\ file' = WholeFile([source EXCEPT !.races =
                   [k \in DOMAIN source.races |->
                       EnrichRace(k, source.races[k], conn, db)]])
    /\ UNCHANGED <<source, pc, data, probe>>

(***************************** the rosters *********************************)
SourceKeys ==
    { <<"2","0","2","6","-","0","1","-","0","5","_","Nakayama","5","R">>,
      <<"2","0","2","6","-","1","-","5","_","Nakayama","5","R">>,
      <<"2","0","2","6","-","0","1","-","0","5","_","Urawa","1","1","R">> }

\* a roster set by hand
Manual == (<<"0", "5">> :> "Manual")

SourceSelections == { <<"5">>, <<"0", "5", "-", "1", "1">> }

SourceRace(k, horses, selection) ==
    [date |-> Split(k, "_")[1], name |-> Split(k, "_")[2], horses |-> horses,
     bets |-> <<[type |-> "umaren", selection |-> selection, amount |-> 100,
                 payout |-> 0, result |-> "-"]>>]

SourceRaces(k) ==
    {SourceRace(k, h, x) : h \in {<< >>, Manual}, x \in SourceSelections}

\* the documents SOURCE_FILE may hold: any of the races, one wager each
SourceDocs ==
    UNION {{[EmptyDoc EXCEPT !.races = r] :
               r \in {f \in [D -> UNION {SourceRaces(k) : k \in D}] :
                         \A k \in D : f[k] \in SourceRaces(k)}} :
           D \in SUBSET SourceKeys}

\* what the query of one race answers, as (umaban, bamei) rows
RowInputs ==
    { << >>,
      << <<<<"0", "5">>, "Alpha">>, <<<<"1", "1">>, "Beta">> >>,
      << <<<<"0", "5">>, "Gamma">> >> }

Queries == {parse_race_key(k) : k \in SourceKeys} \ {None}

DBs == [Queries -> RowInputs]

InitRoster ==
    /\ file = NoFile
    /\ source \in SourceDocs
    /\ pc = "idle"
    /\ data = EmptyDoc
    /\ probe = [selection |-> << >>, bet_type |-> "tansho", called |-> FALSE,
                valid |-> FALSE]

RosterDate == <<"2", "0", "2", "6", "-", "0", "1", "-", "0", "5">>

RosterKey == RaceKey(RosterDate, "Nakayama", 5)

\* the race appended to holds no more wagers than the bound
RosterRoom ==
    RosterKey \in DOMAIN file.doc.races
        => Len(file.doc.races[RosterKey].bets) <= MaxRosterBets

BuildStep == \E conn \in BOOLEAN, db \in DBs : Build(conn, db)

AppendStep ==
    /\ RosterRoom
    /\ \E selection \in {<<"5">>, <<"1", "1", "-", "0", "5">>},
          rows \in RowInputs :
           Main(Answers(RosterDate, "Nakayama", 5, "umaren", selection, 100,
                        "miss", 0), rows)

NextRoster == BuildStep \/ AppendStep

SpecRoster == InitRoster /\ [][NextRoster]_vars

\* C6: build leaves the roster of every race of its input that has one as
\* it is, whatever the lookup answers, and an append keeps the name of
\* every runner number a roster already holds.
C6_RosterKept ==
    [][ /\ BuildStep =>
              \A k \in DOMAIN source.races :
                  source.races[k].horses # << >> =>
                      file'.doc.races[k].horses = source.races[k].horses
        /\ AppendStep =>
              \A k \in DOMAIN file.doc.races :
                  \A n \in DOMAIN file.doc.races[k].horses :
                      /\ k \in DOMAIN file'.doc.races
                      /\ n \in DOMAIN file'.doc.races[k].horses
                      /\ file'.doc.races[k].horses[n]
                            = file.doc.races[k].horses[n] ]_vars

\* on top of a built document whose race came with a roster set by hand, a
\* wager was appended whose lookup named a new runner: the old name stands
C6_Witness ==
    /\ RosterKey \in DOMAIN source.races
    /\ source.races[RosterKey].horses = Manual
    /\ RosterKey \in DOMAIN file.doc.races
    /\ Len(file.doc.races[RosterKey].bets) = 2
    /\ file.doc.races[RosterKey].bets[1] = source.races[RosterKey].bets[1]
    /\ file.doc.races[RosterKey].horses
          = (<<"1", "1">> :> "Beta") @@ Manual
====
